---- MODULE Spec2Model ----
(***************************************************************************)
(* webpack-subresource-integrity: the plugin's build lifecycle             *)
(* (src/index.js) as a state machine.                                      *)
(*                                                                         *)
(* Text (asset sources, integrity strings, placeholder markers) is a       *)
(* sequence of tokens.  A digest is an ideal, collision-free hash: the     *)
(* token [k |-> "sri", alg, bytes] stands for "<alg>-<base64 digest of     *)
(* bytes>".  Positions are 0-based, as in JavaScript.                      *)
(***************************************************************************)
EXTENDS Integers, Sequences, FiniteSets, TLC

\* ------------------------------------------------------------------ bounds
NumChunks == 3
MaxEdges == 3
MaxTags == 2
MaxSourceLen == 4

Chunks == 1..NumChunks

\* ------------------------------------------------------------- text helpers
Range(s) == {s[i] : i \in DOMAIN s}

Txt(s) == [k |-> "txt", v |-> s]

RECURSIVE Concat(_)
Concat(ss) == IF ss = <<>> THEN <<>> ELSE Head(ss) \o Concat(Tail(ss))

\* String.prototype.indexOf: 0-based position of the first occurrence, or -1
IndexOf(s, m) ==
    LET hits == {i \in 0..(Len(s) - Len(m)) : SubSeq(s, i + 1, i + Len(m)) = m}
    IN  IF hits = {} THEN -1 ELSE CHOOSE i \in hits : \A j \in hits : i <= j

Contains(s, m) == IndexOf(s, m) >= 0

\* ------------------------------------------------------------ Digest Engine
\* crypto.createHash(name) succeeds for these names
SupportedHashFuncNames == {"sha256", "sha384", "sha512", "md5"}

standardHashFuncNames == <<"sha256", "sha384", "sha512">>

\* a hashFuncNames entry that is not a string (the number 42)
NonStringNames == {"<42>"}

\* util.computeIntegrity: one "<name>-<digest>" entry per algorithm, in order
computeIntegrity(hashFuncNames, source) ==
    [i \in 1..Len(hashFuncNames) |->
        [k |-> "sri", alg |-> hashFuncNames[i], bytes |-> source]]

\* util.makePlaceholder: a deterministic marker, a hash of the algorithm list
\* and the chunk id
makePlaceholder(hashFuncNames, id) ==
    computeIntegrity(hashFuncNames, <<[k |-> "placeholder", id |-> id]>>)

\* ------------------------------------------------------------------- state
VARIABLES
    phase,              \* the host's position in the build lifecycle
    compilerOptions,    \* compiler.options: [mode, crossOriginLoading]
    envDevelopment,     \* process.env.ENVIRONMENT === "development"
    htmlPlugin,         \* an html-webpack-plugin is part of the build
    options,            \* this.options: [enabled, hashFuncNames]
    optionsValidated,   \* this.optionsValidated
    emittedMessages,    \* this.emittedMessages
    hooks,              \* the handlers the plugin has tapped
    chunks,             \* compilation.chunks: id -> [files, children, hasRuntime]
    assets,             \* compilation.assets: key -> [source, integrity, hasIntegrity]
    sriChunkAssets,     \* compilation.sriChunkAssets: chunk id -> asset key
    warnings,           \* compilation.warnings
    errors,             \* compilation.errors
    plan,               \* what the host and its other plugins will do in this build
    pendingFiles,       \* chunk files the host has still to emit
    hwpPublicPath,      \* this.hwpPublicPath
    docTags,            \* the document's tags, as the alter-tags event left them
    jsIntegrity,        \* pluginArgs.assets.jsIntegrity
    hashLog,            \* history: the assets hashed by processChunk, in order
    addLog,             \* history: per addMissingIntegrityHashes run, the keys it computed
    probe               \* a direct call of replaceAsset: its arguments and its result

vars == <<phase, compilerOptions, envDevelopment, htmlPlugin, options, optionsValidated,
          emittedMessages, hooks, chunks, assets, sriChunkAssets, warnings, errors, plan,
          pendingFiles, hwpPublicPath, docTags, jsIntegrity, hashLog, addLog, probe>>

\* -------------------------------------------------------------- asset keys
JsFile(c) == <<c, "js">>
CssFile(c) == <<c, "css">>
RenamedFile(c) == <<c, "min.js">>
OrphanFile == <<0, "png">>
LateFile == <<0, "late.js">>
\* the JavaScript value undefined, where a key is expected
Undefined == <<0, "undefined">>

\* asset.integrity is truthy: set, and not the empty string
HasIntegrity(asset) == asset.hasIntegrity /\ asset.integrity # <<>>

NewAsset(source) == [source |-> source, integrity |-> <<>>, hasIntegrity |-> FALSE]

\* ------------------------------------------------------------- diagnostics
\* emitMessage: messages.push(new Error(...))
emitMessage(messages, message) == Append(messages, message)

\* faulty variant: the memo is not consulted
emitMessageOnceAlways(messages, memo, message) ==
    <<emitMessage(messages, message), memo \cup {message}>>

\* emitMessageOnce on a sink, given the memo: <<sink', memo'>>
emitMessageOnce(messages, memo, message) ==
    IF message \notin memo
    THEN <<emitMessage(messages, message), memo \cup {message}>>
    ELSE <<messages, memo>>

\* -------------------------------------------------------------- validation
\* The plugin and compilation fields validation reads and writes, as a record
\* v: [options, optionsValidated, emittedMessages, warnings, errors].

\* warnOnce(compilation, message)
warnOnce(v, message) ==
    LET r == emitMessageOnce(v.warnings, v.emittedMessages, message)
    IN  [v EXCEPT !.warnings = r[1], !.emittedMessages = r[2]]

\* error(compilation, message): not memoised
error(v, message) == [v EXCEPT !.errors = emitMessage(v.errors, message)]

\* validateHashFuncName: <<v', valid>>
validateHashFuncName(v, hashFuncName) ==
    IF hashFuncName \in NonStringNames
    THEN <<error(v, <<"notAString", hashFuncName>>), FALSE>>
    ELSE IF hashFuncName \notin SupportedHashFuncNames
    THEN <<error(v, <<"cannotUse", hashFuncName>>), FALSE>>
    ELSE <<v, TRUE>>

\* Array.prototype.every over validateHashFuncName: stops at the first failure
RECURSIVE everyValid(_, _)
everyValid(v, names) ==
    IF names = <<>> THEN <<v, TRUE>>
    ELSE LET r == validateHashFuncName(v, Head(names))
         IN  IF r[2] THEN everyValid(r[1], Tail(names)) ELSE <<r[1], FALSE>>

warnStandardHashFunc(v) ==
    LET foundStandardHashFunc ==
            \E i \in DOMAIN v.options.hashFuncNames.names :
                v.options.hashFuncNames.names[i] \in Range(standardHashFuncNames)
    IN  IF ~foundStandardHashFunc THEN warnOnce(v, <<"noStandardHashFunc">>) ELSE v

\* faulty variant: an invalid name is reported but SRI is left enabled
validateHashFuncNamesKeepEnabled(v) ==
    IF ~v.options.hashFuncNames.isArray
    THEN [error(v, <<"hashFuncNamesNotArray">>) EXCEPT !.options.enabled = FALSE]
    ELSE LET r == everyValid(v, v.options.hashFuncNames.names)
         IN  IF ~r[2] THEN r[1] ELSE warnStandardHashFunc(v)

validateHashFuncNames(v) ==
    IF ~v.options.hashFuncNames.isArray
    THEN [error(v, <<"hashFuncNamesNotArray">>) EXCEPT !.options.enabled = FALSE]
    ELSE LET r == everyValid(v, v.options.hashFuncNames.names)
         IN  IF ~r[2] THEN [r[1] EXCEPT !.options.enabled = FALSE]
             ELSE warnStandardHashFunc(v)

validateOptions(v, crossOriginLoading) ==
    IF v.optionsValidated THEN v
    ELSE LET v1 == [v EXCEPT !.optionsValidated = TRUE]
             v2 == IF v1.options.enabled /\ crossOriginLoading = "false"
                   THEN warnOnce(v1, <<"crossOriginPolicy">>)
                   ELSE v1
         IN  validateHashFuncNames(v2)

\* ----------------------------------------------------- Placeholder Protocol
Min(a, b) == IF a <= b THEN a ELSE b

\* ReplaceSource._splitString(str, position)
splitString(str, position) ==
    IF position <= 0 THEN << <<>>, str >>
    ELSE LET at == Min(position, Len(str))
         IN  << SubSeq(str, 1, at), SubSeq(str, at + 1, Len(str)) >>

\* The replacement ReplaceSource applies first: greatest end, then greatest
\* start, then the one inserted last.
lastReplacement(repls) ==
    CHOOSE r \in repls : \A q \in repls :
        \/ r.end > q.end
        \/ r.end = q.end /\ r.start > q.start
        \/ r.end = q.end /\ r.start = q.start /\ r.insertIndex >= q.insertIndex

\* ReplaceSource.source(): every replacement addresses the ORIGINAL text; they
\* are applied from the back of the text to the front.
RECURSIVE replaceString(_, _)
replaceString(str, repls) ==
    IF repls = {} THEN str
    ELSE LET repl == lastReplacement(repls)
             splitted1 == splitString(str, repl.end + 1)
             splitted2 == splitString(splitted1[1], repl.start)
         IN  replaceString(splitted2[1], repls \ {repl}) \o repl.content \o splitted1[2]

\* faulty variant: the value is inserted in front of the marker, which stays
replaceMagicMarkersInsert(oldSource, hashByChunkId, hashFuncNames) ==
    {[start |-> IndexOf(oldSource, makePlaceholder(hashFuncNames, hashByChunkId[i].id)),
      end |-> IndexOf(oldSource, makePlaceholder(hashFuncNames, hashByChunkId[i].id)) - 1,
      content |-> hashByChunkId[i].hash,
      insertIndex |-> i] :
        i \in {j \in DOMAIN hashByChunkId :
                 IndexOf(oldSource, makePlaceholder(hashFuncNames, hashByChunkId[j].id)) >= 0}}

\* faulty variant: replace() is called for an absent marker too (position -1)
replaceMagicMarkersAbsentToo(oldSource, hashByChunkId, hashFuncNames) ==
    {[start |-> IndexOf(oldSource, makePlaceholder(hashFuncNames, hashByChunkId[i].id)),
      end |-> IndexOf(oldSource, makePlaceholder(hashFuncNames, hashByChunkId[i].id))
                + Len(makePlaceholder(hashFuncNames, hashByChunkId[i].id)) - 1,
      content |-> hashByChunkId[i].hash,
      insertIndex |-> i] :
        i \in DOMAIN hashByChunkId}

\* faulty variant: the end of the replaced range is one past the marker
replaceMagicMarkersOffByOne(oldSource, hashByChunkId, hashFuncNames) ==
    {[start |-> IndexOf(oldSource, makePlaceholder(hashFuncNames, hashByChunkId[i].id)),
      end |-> IndexOf(oldSource, makePlaceholder(hashFuncNames, hashByChunkId[i].id))
                + Len(makePlaceholder(hashFuncNames, hashByChunkId[i].id)),
      content |-> hashByChunkId[i].hash,
      insertIndex |-> i] :
        i \in {j \in DOMAIN hashByChunkId :
                 IndexOf(oldSource, makePlaceholder(hashFuncNames, hashByChunkId[j].id)) >= 0}}

\* replaceMagicMarkers over hashByChunkId.entries(): the replace() calls made
replaceMagicMarkers(oldSource, hashByChunkId, hashFuncNames) ==
    {[start |-> IndexOf(oldSource, makePlaceholder(hashFuncNames, hashByChunkId[i].id)),
      end |-> IndexOf(oldSource, makePlaceholder(hashFuncNames, hashByChunkId[i].id))
                + Len(makePlaceholder(hashFuncNames, hashByChunkId[i].id)) - 1,
      content |-> hashByChunkId[i].hash,
      insertIndex |-> i] :
        i \in {j \in DOMAIN hashByChunkId :
                 IndexOf(oldSource, makePlaceholder(hashFuncNames, hashByChunkId[j].id)) >= 0}}

\* faulty variant: the integrity is computed from the source before the
\* replacements
replaceAssetStaleIntegrity(assetMap, hashByChunkId, chunkFile, hashFuncNames) ==
    LET oldSource == assetMap[chunkFile].source
        newSource == replaceString(
                         oldSource,
                         replaceMagicMarkers(oldSource, hashByChunkId, hashFuncNames))
    IN  [source |-> newSource,
         integrity |-> computeIntegrity(hashFuncNames, oldSource),
         hasIntegrity |-> TRUE]

\* replaceAsset: the new asset installed at assets[chunkFile]
replaceAsset(assetMap, hashByChunkId, chunkFile, hashFuncNames) ==
    LET oldSource == assetMap[chunkFile].source
        newSource == replaceString(
                         oldSource,
                         replaceMagicMarkers(oldSource, hashByChunkId, hashFuncNames))
    IN  [source |-> newSource,
         integrity |-> computeIntegrity(hashFuncNames, newSource),
         hasIntegrity |-> TRUE]

\* Map.prototype.set: a known key keeps its place
mapSet(hashByChunkId, id, hash) ==
    IF \E i \in DOMAIN hashByChunkId : hashByChunkId[i].id = id
    THEN [i \in DOMAIN hashByChunkId |->
            IF hashByChunkId[i].id = id THEN [id |-> id, hash |-> hash]
            ELSE hashByChunkId[i]]
    ELSE Append(hashByChunkId, [id |-> id, hash |-> hash])

\* ------------------------------------------------ Chunk Dependency Resolver
\* util.findChunks: depth-first discovery over the runtime-load edges, each
\* chunk once (visited set), the root first.
RECURSIVE recurseChunk(_, _, _)
RECURSIVE recurseChildren(_, _, _)
recurseChunk(cs, allChunks, childChunk) ==
    IF childChunk \in Range(allChunks) THEN allChunks
    ELSE recurseChildren(cs, Append(allChunks, childChunk), cs[childChunk].children)
recurseChildren(cs, allChunks, children) ==
    IF children = <<>> THEN allChunks
    ELSE recurseChildren(cs, recurseChunk(cs, allChunks, Head(children)), Tail(children))

findChunks(cs, chunk) == recurseChunk(cs, <<>>, chunk)

\* Array.prototype.reverse
Reverse(s) == [i \in 1..Len(s) |-> s[Len(s) + 1 - i]]

\* util.isRuntimeChunk
isRuntimeChunk(cs, c) == cs[c].hasRuntime

\* ---------------------------------------------------- Asset Rewrite Pipeline
\* The pipeline's working state, as a record
\* w: [assets, warnings, emittedMessages, hashLog, hashByChunkId, thrown, added].
\* thrown: a TypeError left the handler (assets[sourcePath] is undefined);
\* added: the keys the final addMissingIntegrityHashes computed (history).

HotUpdateText == <<Txt("webpackHotUpdate")>>

\* warnIfHotUpdate(compilation, source)
warnIfHotUpdate(w, source) ==
    IF IndexOf(source, HotUpdateText) >= 0
    THEN LET r == emitMessageOnce(w.warnings, w.emittedMessages, <<"hotReload">>)
         IN  [w EXCEPT !.warnings = r[1], !.emittedMessages = r[2]]
    ELSE w

\* compilation.sriChunkAssets[id]
tableLookup(table, id) == IF id \in DOMAIN table THEN table[id] ELSE Undefined

\* the entries of hashByChunkId whose marker occurs in source: those
\* replaceAsset substitutes
substitutedIn(source, hashByChunkId, hashFuncNames) ==
    {m \in Range(hashByChunkId) : Contains(source, makePlaceholder(hashFuncNames, m.id))}

\* the body of processChunk's forEach past the zero-files return: resolve the
\* chunk's asset, rewrite it, hash it, record the hash
hashChildChunk(cs, table, hashFuncNames, root, w, childChunk) ==
    LET computed == tableLookup(table, childChunk)
        mismatch == computed \notin Range(cs[childChunk].files)
        w1 == IF mismatch
              THEN LET r == emitMessageOnce(
                                w.warnings, w.emittedMessages,
                                <<"cannotDetermineAsset", childChunk, computed,
                                  cs[childChunk].files[1]>>)
                   IN  [w EXCEPT !.warnings = r[1], !.emittedMessages = r[2]]
              ELSE w
        sourcePath == IF mismatch THEN cs[childChunk].files[1] ELSE computed
    IN  IF sourcePath \notin DOMAIN w1.assets
        THEN [w1 EXCEPT !.thrown = TRUE]
        ELSE
        LET w2 == warnIfHotUpdate(w1, w1.assets[sourcePath].source)
            newAsset == replaceAsset(w2.assets, w2.hashByChunkId, sourcePath, hashFuncNames)
        IN  [w2 EXCEPT
                !.assets = [w2.assets EXCEPT ![sourcePath] = newAsset],
                !.hashByChunkId = mapSet(w2.hashByChunkId, childChunk, newAsset.integrity),
                !.hashLog = Append(w2.hashLog,
                                [root |-> root, chunk |-> childChunk, file |-> sourcePath,
                                 integrity |-> newAsset.integrity,
                                 computed |-> computed,
                                 map |-> w2.hashByChunkId,
                                 substituted |->
                                     substitutedIn(w2.assets[sourcePath].source,
                                                   w2.hashByChunkId, hashFuncNames)])]

\* faulty variant: a chunk without files is not skipped; files[0] is
\* undefined and assets[undefined].source() throws
processChildChunkNoSkip(cs, table, hashFuncNames, root, w, childChunk) ==
    IF w.thrown THEN w
    ELSE IF cs[childChunk].files = <<>> THEN [w EXCEPT !.thrown = TRUE]
    ELSE hashChildChunk(cs, table, hashFuncNames, root, w, childChunk)

\* the body of processChunk's forEach, for one childChunk
processChildChunk(cs, table, hashFuncNames, root, w, childChunk) ==
    IF w.thrown \/ cs[childChunk].files = <<>> THEN w
    ELSE hashChildChunk(cs, table, hashFuncNames, root, w, childChunk)

RECURSIVE forEachChildChunk(_, _, _, _, _, _)
forEachChildChunk(cs, table, hashFuncNames, root, w, order) ==
    IF order = <<>> THEN w
    ELSE forEachChildChunk(
             cs, table, hashFuncNames, root,
             processChildChunk(cs, table, hashFuncNames, root, w, Head(order)),
             Tail(order))

\* faulty variant: the discovery order, not reversed
processingOrderForward(cs, root) == findChunks(cs, root)

\* faulty variant: the root is handled once more after the loop
processingOrderRootTwice(cs, root) == Append(Reverse(findChunks(cs, root)), root)

\* the order in which processChunk(root) handles the chunks
processingOrder(cs, root) == Reverse(findChunks(cs, root))

\* faulty variant: hashByChunkId is shared by the roots of one run
processChunkSharedMap(cs, table, hashFuncNames, w, chunk) ==
    IF w.thrown THEN w
    ELSE forEachChildChunk(cs, table, hashFuncNames, chunk, w,
                           processingOrder(cs, chunk))

\* processChunk(chunk, compilation, assets): a fresh hashByChunkId per root
processChunk(cs, table, hashFuncNames, w, chunk) ==
    IF w.thrown THEN w
    ELSE forEachChildChunk(cs, table, hashFuncNames, chunk,
                           [w EXCEPT !.hashByChunkId = <<>>],
                           processingOrder(cs, chunk))

\* compilation.chunks.filter(util.isRuntimeChunk), in chunk order
RECURSIVE runtimeChunks(_, _)
runtimeChunks(cs, from) ==
    IF from \notin DOMAIN cs THEN <<>>
    ELSE (IF isRuntimeChunk(cs, from) THEN <<from>> ELSE <<>>) \o runtimeChunks(cs, from + 1)

RECURSIVE forEachChunk(_, _, _, _, _)
forEachChunk(cs, table, hashFuncNames, w, roots) ==
    IF roots = <<>> THEN w
    ELSE forEachChunk(cs, table, hashFuncNames,
                      processChunk(cs, table, hashFuncNames, w, Head(roots)),
                      Tail(roots))

\* faulty variant: the integrity is computed for every asset, set or not
addMissingIntegrityHashesAlways(assetMap, hashFuncNames) ==
    [assets |->
        [key \in DOMAIN assetMap |->
            [assetMap[key] EXCEPT
                !.integrity = computeIntegrity(hashFuncNames, assetMap[key].source),
                !.hasIntegrity = TRUE]],
     computed |-> DOMAIN assetMap]

\* addMissingIntegrityHashes(assets): the asset map afterwards, and the keys
\* whose integrity it computed (history)
addMissingIntegrityHashes(assetMap, hashFuncNames) ==
    [assets |->
        [key \in DOMAIN assetMap |->
            IF ~HasIntegrity(assetMap[key])
            THEN [assetMap[key] EXCEPT
                     !.integrity = computeIntegrity(hashFuncNames, assetMap[key].source),
                     !.hasIntegrity = TRUE]
            ELSE assetMap[key]],
     computed |-> {key \in DOMAIN assetMap : ~HasIntegrity(assetMap[key])}]

\* ----------------------------------------------------- Document Tag Annotator
\* A path is a sequence of segments: directories [d |-> name], files [f |-> key].
Dir(name) == [d |-> name]
FileSeg(key) == [f |-> key]

RECURSIVE commonPrefixLen(_, _)
commonPrefixLen(a, b) ==
    IF a = <<>> \/ b = <<>> THEN 0
    ELSE IF Head(a) = Head(b) THEN 1 + commonPrefixLen(Tail(a), Tail(b))
    ELSE 0

\* path.relative(from, to)
pathRelative(from, to) ==
    LET n == commonPrefixLen(from, to)
    IN  [i \in 1..(Len(from) - n) |-> Dir("..")] \o SubSeq(to, n + 1, Len(to))

\* hwpAssetPath(src)
hwpAssetPath(publicPath, src) == pathRelative(publicPath, src)

\* util.getTagSrc(tag): the tag's href or src; <<>> when it has none
getTagSrc(tag) == tag.url

\* util.filterTag: script and link tags with a url
filterTag(tag) == tag.tagName \in {"script", "link"} /\ getTagSrc(tag) # <<>>

\* An attribute value: kind "value" (val holds it), "null" or "undefined".
NullValue == [kind |-> "null", val |-> <<>>]
UndefinedValue == [kind |-> "undefined", val |-> <<>>]
Value(val) == [kind |-> "value", val |-> val]

\* the asset key a relative path names; Undefined when it names none
assetKeyOf(assetMap, src) ==
    IF Len(src) = 1 /\ "f" \in DOMAIN src[1] /\ src[1].f \in DOMAIN assetMap
    THEN src[1].f ELSE Undefined

\* util.getIntegrityChecksumForAsset(assets, src)
getIntegrityChecksumForAsset(assetMap, src) ==
    IF assetKeyOf(assetMap, src) = Undefined THEN NullValue
    ELSE IF ~assetMap[assetKeyOf(assetMap, src)].hasIntegrity THEN UndefinedValue
    ELSE Value(assetMap[assetKeyOf(assetMap, src)].integrity)

\* faulty variant: integrity and crossorigin are set whatever the tag declares
processTagOverwrite(assetMap, publicPath, crossOriginLoading, tag) ==
    [tag EXCEPT !.attributes =
        [a \in DOMAIN tag.attributes \cup {"integrity", "crossorigin"} |->
            IF a = "integrity"
            THEN getIntegrityChecksumForAsset(
                     assetMap, hwpAssetPath(publicPath, getTagSrc(tag)))
            ELSE IF a = "crossorigin"
            THEN Value(IF crossOriginLoading = "false" THEN "anonymous"
                       ELSE crossOriginLoading)
            ELSE tag.attributes[a]]]

\* processTag(compilation, tag)
processTag(assetMap, publicPath, crossOriginLoading, tag) ==
    LET src == hwpAssetPath(publicPath, getTagSrc(tag))
        integrity == getIntegrityChecksumForAsset(assetMap, src)
    IN  IF "integrity" \notin DOMAIN tag.attributes
        THEN [tag EXCEPT !.attributes =
                 [a \in DOMAIN tag.attributes \cup {"integrity", "crossorigin"} |->
                     IF a = "integrity" THEN integrity
                     ELSE IF a = "crossorigin"
                     THEN Value(IF crossOriginLoading = "false" THEN "anonymous"
                                ELSE crossOriginLoading)
                     ELSE tag.attributes[a]]]
        ELSE tag

\* ------------------------------------------------------- the build's inputs
\* Load edges <<parent, child>>; a chunk's children are listed by ascending id.
EdgePairs == {e \in Chunks \X Chunks : e[1] # e[2]}
EdgeSets == {E \in SUBSET EdgePairs : Cardinality(E) <= MaxEdges}

RECURSIVE ascending(_)
ascending(S) ==
    IF S = {} THEN <<>>
    ELSE LET m == CHOOSE x \in S : \A y \in S : x <= y
         IN  <<m>> \o ascending(S \ {m})

childrenOf(E, c) == ascending({e[2] : e \in {e \in E : e[1] = c}})

\* How the host and its other plugins treat a chunk's files:
\*   one: a js file;  none: no file;  two: a css file, then a js file;
\*   renamed: the js file is renamed after the chunk-asset event;
\*   deleted: the js asset is deleted, the chunk's file list is left alone.
Layouts == {"one", "none", "two", "renamed", "deleted"}

\* The tags html generation produces: [tagName, target, preset]; target says
\* what the url points at, preset that the tag already declares an integrity.
TagTargets == {"root", "late", "unknown", "elsewhere", "none"}
TagPlans ==
    {[tagName |-> "script", target |-> t, preset |-> FALSE] :
        t \in {"root", "late", "unknown", "elsewhere"}}
    \cup {[tagName |-> "link", target |-> "root", preset |-> TRUE],
          [tagName |-> "script", target |-> "root", preset |-> TRUE],
          [tagName |-> "meta", target |-> "none", preset |-> FALSE]}

RECURSIVE SeqsUpTo(_, _)
SeqsUpTo(S, n) ==
    IF n = 0 THEN {<<>>}
    ELSE SeqsUpTo(S, n - 1)
         \cup {Append(q, x) : q \in {r \in SeqsUpTo(S, n - 1) : Len(r) = n - 1}, x \in S}

HashFuncNameChoices ==
    {[isArray |-> FALSE, names |-> <<>>]}
    \cup {[isArray |-> TRUE, names |-> n] :
            n \in {<<>>, <<"sha256">>, <<"md5">>, <<"sha256", "sha384">>, <<"bogus">>,
                   <<"sha256", "bogus", "nope">>, <<"<42>">>, <<"bogus", "bogus">>}}

Nominal ==
    [options |-> [enabled |-> TRUE,
                  hashFuncNames |-> [isArray |-> TRUE, names |-> <<"sha256", "sha384">>]],
     compilerOptions |-> [mode |-> "production", crossOriginLoading |-> "anonymous"],
     envDevelopment |-> FALSE,
     htmlPlugin |-> TRUE,
     edges |-> {<<1, 2>>, <<2, 3>>},
     roots |-> {1},
     layout |-> [c \in Chunks |-> "one"],
     embed |-> "children",
     hot |-> FALSE,
     orphan |-> TRUE,
     late |-> FALSE,
     publicPath |-> <<>>,
     tags |-> <<[tagName |-> "script", target |-> "root", preset |-> FALSE]>>,
     reruns |-> 0,
     builds |-> 0]

\* -------------------------------------------------------------------- Init
EmptyMap == [x \in {} |-> x]

\* m with key k set to v
MapPut(m, k, v) == [x \in DOMAIN m \cup {k} |-> IF x = k THEN v ELSE m[x]]

\* m without key k
MapRemove(m, k) == [x \in DOMAIN m \ {k} |-> m[x]]

CodeOf(c, key) == <<[k |-> "code", chunk |-> c, file |-> key]>>

\* no direct call of replaceAsset is made during a build
NoProbe ==
    [called |-> FALSE, source |-> <<>>, hashByChunkId |-> <<>>, result |-> NewAsset(<<>>)]

BuildInit(in) ==
    /\ compilerOptions = in.compilerOptions
    /\ envDevelopment = in.envDevelopment
    /\ htmlPlugin = in.htmlPlugin
    /\ options = in.options
    /\ optionsValidated = FALSE
    /\ emittedMessages = {}
    /\ hooks = {}
    /\ chunks = [c \in Chunks |->
                    [files |-> <<>>,
                     children |-> childrenOf(in.edges, c),
                     hasRuntime |-> c \in in.roots]]
    /\ assets = IF in.orphan
                THEN MapPut(EmptyMap, OrphanFile, NewAsset(CodeOf(0, OrphanFile)))
                ELSE EmptyMap
    /\ sriChunkAssets = EmptyMap
    /\ warnings = <<>>
    /\ errors = <<>>
    /\ plan = [layout |-> in.layout, embed |-> in.embed, hot |-> in.hot,
               late |-> in.late, publicPath |-> in.publicPath, tags |-> in.tags,
               orphan |-> in.orphan, reruns |-> in.reruns, builds |-> in.builds]
    /\ pendingFiles = <<>>
    /\ hwpPublicPath = <<Dir("unset")>>
    /\ docTags = <<>>
    /\ jsIntegrity = <<>>
    /\ hashLog = <<>>
    /\ addLog = <<>>

InitWith(in) ==
    /\ BuildInit(in)
    /\ phase = "constructed"
    /\ probe = NoProbe

\* every chunk graph and set of runtime chunks, under a valid configuration
GraphInit ==
    \E E \in EdgeSets, R \in SUBSET Chunks, m \in {"children", "reachable"} :
        InitWith([Nominal EXCEPT !.edges = E, !.roots = R, !.embed = m])

\* every configuration
ConfigInit ==
    \E en \in BOOLEAN, h \in HashFuncNameChoices,
       m \in {"production", "development", "none"},
       x \in {"false", "anonymous", "use-credentials"},
       dev \in BOOLEAN, hp \in BOOLEAN :
        InitWith([Nominal EXCEPT !.options = [enabled |-> en, hashFuncNames |-> h],
                                 !.compilerOptions = [mode |-> m, crossOriginLoading |-> x],
                                 !.envDevelopment = dev, !.htmlPlugin = hp])

\* every treatment of the chunks' files
FileInit ==
    \E l \in [Chunks -> Layouts], h \in BOOLEAN, o \in BOOLEAN :
        InitWith([Nominal EXCEPT !.layout = l, !.hot = h, !.orphan = o])

\* every document
TagInit ==
    \E t \in SeqsUpTo(TagPlans, MaxTags), l \in BOOLEAN,
       pp \in {<<>>, <<Dir("static")>>}, x \in {"false", "use-credentials"} :
        InitWith([Nominal EXCEPT !.tags = t, !.late = l, !.publicPath = pp,
                                 !.compilerOptions.crossOriginLoading = x])

Init == GraphInit \/ ConfigInit \/ FileInit \/ TagInit

\* ----------------------------------------------------------------- actions
\* faulty variant: the environment flag is not read
ApplyIgnoringEnvironment ==
    /\ phase = "constructed"
    /\ UNCHANGED probe
    /\ phase' = "applied"
    /\ hooks' = IF compilerOptions.mode = "development" THEN hooks
                ELSE hooks \cup {"afterPlugins"}
    /\ UNCHANGED <<compilerOptions, envDevelopment, htmlPlugin, options, optionsValidated,
                   emittedMessages, chunks, assets, sriChunkAssets, warnings, errors, plan,
                   pendingFiles, hwpPublicPath, docTags, jsIntegrity, hashLog, addLog>>

\* apply(compiler)
Apply ==
    /\ phase = "constructed"
    /\ UNCHANGED probe
    /\ phase' = "applied"
    /\ hooks' = IF compilerOptions.mode = "development" THEN hooks
                ELSE IF envDevelopment THEN hooks
                ELSE hooks \cup {"afterPlugins"}
    /\ UNCHANGED <<compilerOptions, envDevelopment, htmlPlugin, options, optionsValidated,
                   emittedMessages, chunks, assets, sriChunkAssets, warnings, errors, plan,
                   pendingFiles, hwpPublicPath, docTags, jsIntegrity, hashLog, addLog>>

\* the after-plugins event: afterPlugins(compiler)
AfterPlugins ==
    /\ phase = "applied"
    /\ UNCHANGED probe
    /\ phase' = "afterPlugins"
    /\ hooks' = IF "afterPlugins" \in hooks THEN hooks \cup {"thisCompilation"} ELSE hooks
    /\ UNCHANGED <<compilerOptions, envDevelopment, htmlPlugin, options, optionsValidated,
                   emittedMessages, chunks, assets, sriChunkAssets, warnings, errors, plan,
                   pendingFiles, hwpPublicPath, docTags, jsIntegrity, hashLog, addLog>>

\* the this-compilation event: thisCompilation(compiler, compilation)
ThisCompilation ==
    /\ phase = "afterPlugins"
    /\ UNCHANGED probe
    /\ phase' = "thisCompilation"
    /\ IF "thisCompilation" \in hooks
       THEN LET v == validateOptions(
                         [options |-> options, optionsValidated |-> optionsValidated,
                          emittedMessages |-> emittedMessages, warnings |-> warnings,
                          errors |-> errors],
                         compilerOptions.crossOriginLoading)
            IN  /\ options' = v.options
                /\ optionsValidated' = v.optionsValidated
                /\ emittedMessages' = v.emittedMessages
                /\ warnings' = v.warnings
                /\ errors' = v.errors
                /\ IF ~v.options.enabled
                   THEN UNCHANGED <<hooks, sriChunkAssets>>
                   ELSE /\ sriChunkAssets' = EmptyMap
                        /\ hooks' = hooks \cup {"jmtp", "afterOptimizeAssets",
                                                "beforeChunkAssets", "compilation"}
       ELSE UNCHANGED <<options, optionsValidated, emittedMessages, warnings, errors,
                        hooks, sriChunkAssets>>
    /\ UNCHANGED <<compilerOptions, envDevelopment, htmlPlugin, chunks, assets, plan,
                   pendingFiles, hwpPublicPath, docTags, jsIntegrity, hashLog, addLog>>

\* the compilation event: registerHwpHooks(alterAssetTags, beforeHtmlGeneration, c)
Compilation ==
    /\ phase = "thisCompilation"
    /\ UNCHANGED probe
    /\ phase' = "compilation"
    /\ hooks' = IF "compilation" \in hooks /\ htmlPlugin
                THEN hooks \cup {"beforeHtmlGeneration", "alterAssetTags"}
                ELSE hooks
    /\ UNCHANGED <<compilerOptions, envDevelopment, htmlPlugin, options, optionsValidated,
                   emittedMessages, chunks, assets, sriChunkAssets, warnings, errors, plan,
                   pendingFiles, hwpPublicPath, docTags, jsIntegrity, hashLog, addLog>>

\* the files the host will emit for chunk c, in order
filesToEmit(layout, c) ==
    IF layout[c] = "none" THEN <<>>
    ELSE IF layout[c] = "two" THEN << <<c, CssFile(c)>>, <<c, JsFile(c)>> >>
    ELSE << <<c, JsFile(c)>> >>

\* the before-chunk-assets event: beforeChunkAssets(compilation)
BeforeChunkAssets ==
    /\ phase = "compilation"
    /\ UNCHANGED probe
    /\ phase' = "beforeChunkAssets"
    /\ hooks' = IF "beforeChunkAssets" \in hooks THEN hooks \cup {"chunkAsset"} ELSE hooks
    /\ pendingFiles' = Concat([c \in Chunks |-> filesToEmit(plan.layout, c)])
    /\ UNCHANGED <<compilerOptions, envDevelopment, htmlPlugin, options, optionsValidated,
                   emittedMessages, chunks, assets, sriChunkAssets, warnings, errors, plan,
                   hwpPublicPath, docTags, jsIntegrity, hashLog, addLog>>

\* The ids whose placeholders the main-template plugin (jmtp) writes into the
\* js file of chunk c: the chunks c loads, or, for a runtime chunk under
\* embed = "reachable", every other chunk findChunks(c) finds.
markerIds(cs, embed, c) ==
    IF embed = "children" THEN cs[c].children
    ELSE IF cs[c].hasRuntime THEN Tail(findChunks(cs, c))
    ELSE <<>>

\* the text the host renders for file key of chunk c
renderFile(cs, pl, opts, hooked, c, key) ==
    IF key # JsFile(c) THEN CodeOf(c, key)
    ELSE CodeOf(c, key)
         \o (IF hooked
             THEN Concat([i \in DOMAIN markerIds(cs, pl.embed, c) |->
                            makePlaceholder(opts.hashFuncNames.names,
                                            markerIds(cs, pl.embed, c)[i])])
             ELSE <<>>)
         \o (IF pl.hot THEN HotUpdateText ELSE <<>>)

\* chunkAsset(compilation, chunk, asset): the table afterwards
chunkAsset(assetMap, table, chunkId, asset) ==
    IF asset \in DOMAIN assetMap THEN MapPut(table, chunkId, asset) ELSE table

\* the host emits the next chunk file, then the chunk-asset event
ChunkAsset ==
    /\ phase = "beforeChunkAssets"
    /\ UNCHANGED probe
    /\ pendingFiles # <<>>
    /\ LET c == Head(pendingFiles)[1]
           key == Head(pendingFiles)[2]
           emitted == MapPut(assets, key,
                             NewAsset(renderFile(chunks, plan, options, "jmtp" \in hooks,
                                                 c, key)))
       IN  /\ assets' = emitted
           /\ chunks' = [chunks EXCEPT ![c].files = Append(@, key)]
           /\ sriChunkAssets' = IF "chunkAsset" \in hooks
                                THEN chunkAsset(emitted, sriChunkAssets, c, key)
                                ELSE sriChunkAssets
    /\ pendingFiles' = Tail(pendingFiles)
    /\ UNCHANGED <<phase, compilerOptions, envDevelopment, htmlPlugin, options,
                   optionsValidated, emittedMessages, hooks, warnings, errors, plan,
                   hwpPublicPath, docTags, jsIntegrity, hashLog, addLog>>

\* the host's other plugins rename and delete assets while optimizing
OptimizeAssets ==
    /\ phase = "beforeChunkAssets"
    /\ UNCHANGED probe
    /\ pendingFiles = <<>>
    /\ phase' = "optimizeAssets"
    /\ LET renamed == {c \in Chunks : plan.layout[c] = "renamed"}
           deleted == {c \in Chunks : plan.layout[c] = "deleted"}
           gone == {JsFile(c) : c \in renamed \cup deleted}
       IN  /\ assets' = [key \in (DOMAIN assets \ gone) \cup {RenamedFile(c) : c \in renamed}
                            |-> IF key \in DOMAIN assets \ gone THEN assets[key]
                                ELSE assets[JsFile(key[1])]]
           /\ chunks' = [c \in Chunks |->
                            IF c \in renamed
                            THEN [chunks[c] EXCEPT !.files = <<RenamedFile(c)>>]
                            ELSE chunks[c]]
    /\ UNCHANGED <<compilerOptions, envDevelopment, htmlPlugin, options, optionsValidated,
                   emittedMessages, hooks, sriChunkAssets, warnings, errors, plan,
                   pendingFiles, hwpPublicPath, docTags, jsIntegrity, hashLog, addLog>>

\* afterOptimizeAssets(compilation, assets): the pipeline's working state
afterOptimizeAssets(cs, table, hashFuncNames, w) ==
    LET w1 == forEachChunk(cs, table, hashFuncNames, w, runtimeChunks(cs, 1))
    IN  IF w1.thrown THEN w1
        ELSE LET r == addMissingIntegrityHashes(w1.assets, hashFuncNames)
             IN  [w1 EXCEPT !.assets = r.assets, !.added = r.computed]

\* the after-optimize-assets event
AfterOptimizeAssets ==
    /\ phase = "optimizeAssets"
    /\ UNCHANGED probe
    /\ IF "afterOptimizeAssets" \in hooks
       THEN LET w0 == [assets |-> assets, warnings |-> warnings,
                       emittedMessages |-> emittedMessages, hashLog |-> hashLog,
                       hashByChunkId |-> <<>>, thrown |-> FALSE, added |-> {}]
            IN  \E w \in {afterOptimizeAssets(chunks, sriChunkAssets,
                                              options.hashFuncNames.names, w0)} :
                /\ assets' = w.assets
                /\ warnings' = w.warnings
                /\ emittedMessages' = w.emittedMessages
                /\ hashLog' = w.hashLog
                /\ addLog' = IF w.thrown THEN addLog
                             ELSE Append(addLog, w.added)
                /\ phase' = IF w.thrown THEN "failed" ELSE "afterOptimizeAssets"
       ELSE /\ phase' = "afterOptimizeAssets"
            /\ UNCHANGED <<assets, warnings, emittedMessages, hashLog, addLog>>
    /\ UNCHANGED <<compilerOptions, envDevelopment, htmlPlugin, options, optionsValidated,
                   hooks, chunks, sriChunkAssets, errors, plan, pendingFiles,
                   hwpPublicPath, docTags, jsIntegrity>>

\* the host emits: a late asset may join the asset map
Emit ==
    /\ phase = "afterOptimizeAssets"
    /\ UNCHANGED probe
    /\ phase' = "emit"
    /\ assets' = IF plan.late THEN MapPut(assets, LateFile, NewAsset(CodeOf(0, LateFile)))
                 ELSE assets
    /\ UNCHANGED <<compilerOptions, envDevelopment, htmlPlugin, options, optionsValidated,
                   emittedMessages, hooks, chunks, sriChunkAssets, warnings, errors, plan,
                   pendingFiles, hwpPublicPath, docTags, jsIntegrity, hashLog, addLog>>

\* the url html generation gives a planned tag
tagUrl(publicPath, target) ==
    IF target = "root" THEN publicPath \o <<FileSeg(JsFile(1))>>
    ELSE IF target = "late" THEN publicPath \o <<FileSeg(LateFile)>>
    ELSE IF target = "unknown" THEN publicPath \o <<FileSeg(<<0, "nope.js">>)>>
    ELSE IF target = "elsewhere" THEN <<Dir("cdn"), FileSeg(JsFile(1))>>
    ELSE <<>>

PresetIntegrity == Value(<<Txt("preset")>>)

\* the tag html generation produces for a planned tag
generateTag(publicPath, tp) ==
    [tagName |-> tp.tagName,
     url |-> tagUrl(publicPath, tp.target),
     attributes |-> IF tp.preset THEN MapPut(EmptyMap, "integrity", PresetIntegrity)
                    ELSE EmptyMap]

\* beforeHtmlGeneration: pluginArgs.assets.jsIntegrity for the js urls
integrityList(assetMap, publicPath, urls) ==
    [i \in DOMAIN urls |->
        getIntegrityChecksumForAsset(assetMap, hwpAssetPath(publicPath, urls[i]))]

\* the urls of pluginArgs.assets.js: those of the document's script tags
scriptUrls(tags) ==
    LET RECURSIVE pick(_)
        pick(ts) == IF ts = <<>> THEN <<>>
                    ELSE (IF Head(ts).tagName = "script" THEN <<Head(ts).url>> ELSE <<>>)
                         \o pick(Tail(ts))
    IN  pick(tags)

\* the before-html-generation event: beforeHtmlGeneration(compilation, pluginArgs, cb)
BeforeHtmlGeneration ==
    /\ phase = "emit"
    /\ UNCHANGED probe
    /\ htmlPlugin
    /\ phase' = "beforeHtmlGeneration"
    /\ docTags' = [i \in DOMAIN plan.tags |-> generateTag(plan.publicPath, plan.tags[i])]
    /\ IF "beforeHtmlGeneration" \in hooks
       THEN \E r \in {addMissingIntegrityHashes(assets, options.hashFuncNames.names)} :
            /\ hwpPublicPath' = plan.publicPath
            /\ assets' = r.assets
            /\ addLog' = Append(addLog, r.computed)
            /\ jsIntegrity' = integrityList(r.assets, plan.publicPath, scriptUrls(docTags'))
       ELSE UNCHANGED <<hwpPublicPath, assets, addLog, jsIntegrity>>
    /\ UNCHANGED <<compilerOptions, envDevelopment, htmlPlugin, options, optionsValidated,
                   emittedMessages, hooks, chunks, sriChunkAssets, warnings, errors, plan,
                   pendingFiles, hashLog>>

\* alterAssetTags: processTag over the script and link tags
alterAssetTags(assetMap, publicPath, crossOriginLoading, tags) ==
    [i \in DOMAIN tags |->
        IF filterTag(tags[i])
        THEN processTag(assetMap, publicPath, crossOriginLoading, tags[i])
        ELSE tags[i]]

\* the alter-asset-tags event
AlterAssetTags ==
    /\ phase = "beforeHtmlGeneration"
    /\ UNCHANGED probe
    /\ phase' = "done"
    /\ docTags' = IF "alterAssetTags" \in hooks
                  THEN alterAssetTags(assets, hwpPublicPath,
                                      compilerOptions.crossOriginLoading, docTags)
                  ELSE docTags
    /\ UNCHANGED <<compilerOptions, envDevelopment, htmlPlugin, options, optionsValidated,
                   emittedMessages, hooks, chunks, assets, sriChunkAssets, warnings, errors,
                   plan, pendingFiles, hwpPublicPath, jsIntegrity, hashLog, addLog>>

Next ==
    \/ Apply
    \/ AfterPlugins
    \/ ThisCompilation
    \/ Compilation
    \/ BeforeChunkAssets
    \/ ChunkAsset
    \/ OptimizeAssets
    \/ AfterOptimizeAssets
    \/ Emit
    \/ BeforeHtmlGeneration
    \/ AlterAssetTags

Spec == Init /\ [][Next]_vars

\* ------------------------------------- repeated phases and repeated builds
\* the host fires the after-optimize-assets event once more on the compilation
AfterOptimizeAssetsAgain ==
    /\ phase = "afterOptimizeAssets"
    /\ UNCHANGED probe
    /\ plan.reruns > 0
    /\ "afterOptimizeAssets" \in hooks
    /\ plan' = [plan EXCEPT !.reruns = @ - 1]
    /\ LET w0 == [assets |-> assets, warnings |-> warnings,
                  emittedMessages |-> emittedMessages, hashLog |-> hashLog,
                  hashByChunkId |-> <<>>, thrown |-> FALSE, added |-> {}]
       IN  \E w \in {afterOptimizeAssets(chunks, sriChunkAssets,
                                         options.hashFuncNames.names, w0)} :
            /\ assets' = w.assets
            /\ warnings' = w.warnings
            /\ emittedMessages' = w.emittedMessages
            /\ hashLog' = w.hashLog
            /\ addLog' = IF w.thrown THEN addLog ELSE Append(addLog, w.added)
            /\ phase' = IF w.thrown THEN "failed" ELSE "afterOptimizeAssets"
    /\ UNCHANGED <<compilerOptions, envDevelopment, htmlPlugin, options, optionsValidated,
                   hooks, chunks, sriChunkAssets, errors, pendingFiles,
                   hwpPublicPath, docTags, jsIntegrity>>

\* the taps on the compiler: they outlive a compilation
CompilerHooks == {"afterPlugins", "thisCompilation", "compilation"}

\* the build has come to its end
BuildEnded ==
    \/ phase \in {"done", "failed"}
    \/ phase = "emit" /\ ~htmlPlugin

\* Watch mode: the host starts the next build with a new compilation object.
\* The plugin instance (options, optionsValidated, emittedMessages,
\* hwpPublicPath) and its taps on the compiler stay; the compilation's chunks,
\* assets, warnings, errors, sriChunkAssets and taps are new.  The histories
\* hashLog and addLog are kept per compilation.
Rebuild ==
    /\ BuildEnded
    /\ UNCHANGED probe
    /\ plan.builds > 0
    /\ plan' = [plan EXCEPT !.builds = @ - 1]
    /\ phase' = "afterPlugins"
    /\ hooks' = hooks \cap CompilerHooks
    /\ chunks' = [c \in Chunks |-> [chunks[c] EXCEPT !.files = <<>>]]
    /\ assets' = IF plan.orphan
                 THEN MapPut(EmptyMap, OrphanFile, NewAsset(CodeOf(0, OrphanFile)))
                 ELSE EmptyMap
    /\ sriChunkAssets' = EmptyMap
    /\ warnings' = <<>>
    /\ errors' = <<>>
    /\ pendingFiles' = <<>>
    /\ docTags' = <<>>
    /\ jsIntegrity' = <<>>
    /\ hashLog' = <<>>
    /\ addLog' = <<>>
    /\ UNCHANGED <<compilerOptions, envDevelopment, htmlPlugin, options, optionsValidated,
                   emittedMessages, hwpPublicPath>>

\* every chunk graph and set of runtime chunks; the phase is fired twice
WatchGraphInit ==
    \E E \in EdgeSets, R \in SUBSET Chunks :
        InitWith([Nominal EXCEPT !.edges = E, !.roots = R, !.reruns = 1])

\* every treatment of the chunks' files, in two builds
WatchFileInit ==
    \E l \in [Chunks -> {"one", "none", "renamed"}], h \in BOOLEAN :
        InitWith([Nominal EXCEPT !.layout = l, !.hot = h, !.roots = {1, 2},
                                 !.reruns = 1, !.builds = 1])

\* every hashFuncNames, in two builds
WatchConfigInit ==
    \E h \in HashFuncNameChoices, x \in {"false", "anonymous"}, hp \in BOOLEAN :
        InitWith([Nominal EXCEPT !.options.hashFuncNames = h,
                                 !.compilerOptions.crossOriginLoading = x,
                                 !.htmlPlugin = hp, !.reruns = 1, !.builds = 1])

WatchInit == WatchGraphInit \/ WatchFileInit \/ WatchConfigInit

NextWatch ==
    \/ Next
    \/ AfterOptimizeAssetsAgain
    \/ Rebuild

SpecWatch == WatchInit /\ [][NextWatch]_vars

\* ------------------------------------------- replaceAsset, called directly
\* The arguments of a direct call: a source over plain text and the marker
\* tokens of chunks 1 and 2, and a hashByChunkId whose values have lengths
\* 0, 1 and 3.
ProbeIds == {1, 2}
ProbeNames == {<<"sha256">>, <<"sha256", "sha384">>}
ProbeAlphabet(hashFuncNames) ==
    {Txt("a")} \cup UNION {Range(makePlaceholder(hashFuncNames, id)) : id \in ProbeIds}
ProbeValues == {<<>>, <<Txt("h")>>, <<Txt("h"), Txt("i"), Txt("j")>>}
ProbeMaps ==
    {m \in SeqsUpTo([id : ProbeIds, hash : ProbeValues], Cardinality(ProbeIds)) :
        \A i, j \in DOMAIN m : m[i].id = m[j].id => i = j}

ReplaceInit ==
    \E names \in ProbeNames :
        \E source \in SeqsUpTo(ProbeAlphabet(names), MaxSourceLen), m \in ProbeMaps :
            /\ BuildInit([Nominal EXCEPT !.options.hashFuncNames.names = names])
            /\ phase = "probe"
            /\ probe = [called |-> FALSE, source |-> source, hashByChunkId |-> m,
                        result |-> NewAsset(<<>>)]

\* replaceAsset(assets, hashByChunkId, chunkFile) on the probe's arguments
ReplaceAssetCall ==
    /\ phase = "probe"
    /\ ~probe.called
    /\ probe' = [probe EXCEPT
                    !.called = TRUE,
                    !.result = replaceAsset(
                                   MapPut(EmptyMap, JsFile(1), NewAsset(probe.source)),
                                   probe.hashByChunkId, JsFile(1),
                                   options.hashFuncNames.names)]
    /\ UNCHANGED <<phase, compilerOptions, envDevelopment, htmlPlugin, options,
                   optionsValidated, emittedMessages, hooks, chunks, assets,
                   sriChunkAssets, warnings, errors, plan, pendingFiles, hwpPublicPath,
                   docTags, jsIntegrity, hashLog, addLog>>

SpecReplace == ReplaceInit /\ [][ReplaceAssetCall]_vars

\* ------------------------------------------------------------------ claims
\* afterOptimizeAssets has returned (the handler was tapped and did not throw)
AfterOptimizeAssetsReturned ==
    phase = "afterOptimizeAssets" /\ "afterOptimizeAssets" \in hooks

\* C1: when afterOptimizeAssets returns, every asset of the asset map has an
\* integrity value, the assets no processed chunk owns included.
C1_EveryAssetHasIntegrity ==
    AfterOptimizeAssetsReturned =>
        \A key \in DOMAIN assets : HasIntegrity(assets[key])

\* the load graph has no cycle: no chunk is found again from one of its children
Acyclic(cs) ==
    \A c \in DOMAIN cs : \A i \in DOMAIN cs[c].children :
        c \notin Range(findChunks(cs, cs[c].children[i]))

\* c loads d
Loads(cs, c, d) == d \in Range(cs[c].children)

\* C2: on an acyclic chunk graph, processChunk(root) handles the chunks in a
\* topological order of the load graph: no chunk is hashed before a chunk it
\* loads is hashed in the same root's traversal.
C2_ReverseDiscoveryIsTopological ==
    (AfterOptimizeAssetsReturned /\ Acyclic(chunks)) =>
        \A i \in DOMAIN hashLog : \A d \in Range(chunks[hashLog[i].chunk].children) :
            chunks[d].files # <<>> =>
                \E j \in 1..(i - 1) :
                    hashLog[j].root = hashLog[i].root /\ hashLog[j].chunk = d

\* a, b, c form a chain: a loads only b, b loads only c, c loads nothing, and
\* no chunk outside the chain loads one of the three
Chain(cs, a, b, c) ==
    /\ a # b /\ b # c /\ a # c
    /\ cs[a].children = <<b>>
    /\ cs[b].children = <<c>>
    /\ cs[c].children = <<>>
    /\ \A d \in DOMAIN cs \ {a, b, c} : Range(cs[d].children) \cap {a, b, c} = {}

\* the position in hashLog at which root's traversal hashed chunk c; 0 if none
LogPos(root, c) ==
    IF \E i \in DOMAIN hashLog : hashLog[i].root = root /\ hashLog[i].chunk = c
    THEN CHOOSE i \in DOMAIN hashLog : hashLog[i].root = root /\ hashLog[i].chunk = c
    ELSE 0

\* placeholder text is left in source (an empty marker is no text)
Residual(source, marker) == marker # <<>> /\ Contains(source, marker)

\* in root a's traversal: c is hashed before b, b before a, and the asset
\* rewritten for a holds the final integrity of b's asset and no marker for b
ChainOutcome(a, b, c) ==
    /\ 0 < LogPos(a, c)
    /\ LogPos(a, c) < LogPos(a, b)
    /\ LogPos(a, b) < LogPos(a, a)
    /\ LET fileA == hashLog[LogPos(a, a)].file
           fileB == hashLog[LogPos(a, b)].file
       IN  /\ Contains(assets[fileA].source, assets[fileB].integrity)
           /\ ~Residual(assets[fileA].source,
                        makePlaceholder(options.hashFuncNames.names, b))

C4_EachChunkAtMostOncePerRoot ==
    /\ phase = "optimizeAssets" =>
        \A root \in Chunks :
            Len(processingOrder(chunks, root))
                = Cardinality(Range(processingOrder(chunks, root)))
    /\ \A i, j \in DOMAIN hashLog :
        (hashLog[i].root = hashLog[j].root /\ hashLog[i].chunk = hashLog[j].chunk) => i = j

C4_Witness ==
    /\ AfterOptimizeAssetsReturned
    /\ \E a, b \in Chunks :
        /\ a # b /\ Loads(chunks, a, b) /\ Loads(chunks, b, a) /\ chunks[a].hasRuntime
        /\ LogPos(a, a) > 0 /\ LogPos(a, b) > 0

\* C5: a second run of addMissingIntegrityHashes (the one beforeHtmlGeneration
\* makes, after afterOptimizeAssets made the first) leaves every integrity
\* value the first run left, and computes none for an asset that has one.
C5_AddMissingIsIdempotent ==
    [][(/\ phase = "emit" /\ phase' = "beforeHtmlGeneration"
        /\ "beforeHtmlGeneration" \in hooks /\ Len(addLog) = 1)
       => /\ Len(addLog') = 2
          /\ DOMAIN assets' = DOMAIN assets
          /\ \A key \in DOMAIN assets :
                /\ HasIntegrity(assets[key]) => key \notin addLog'[2]
                /\ assets[key].hasIntegrity =>
                       assets'[key].integrity = assets[key].integrity]_vars

C5_Witness ==
    /\ phase = "beforeHtmlGeneration"
    /\ Len(addLog) = 2
    /\ addLog[1] # {}
    /\ \E key \in DOMAIN assets : key \notin addLog[2] /\ HasIntegrity(assets[key])

\* The text replaceAsset is to produce, read left to right: at the first
\* occurrence of a marker of hashByChunkId stands its value, elsewhere the
\* source's own token.
RECURSIVE expectedFrom(_, _, _, _)
expectedFrom(source, hashByChunkId, hashFuncNames, at) ==
    IF at >= Len(source) THEN <<>>
    ELSE LET here == {i \in DOMAIN hashByChunkId :
                        IndexOf(source, makePlaceholder(hashFuncNames,
                                                        hashByChunkId[i].id)) = at}
         IN  IF here = {}
             THEN <<source[at + 1]>>
                  \o expectedFrom(source, hashByChunkId, hashFuncNames, at + 1)
             ELSE LET i == CHOOSE i \in here : TRUE
                  IN  hashByChunkId[i].hash
                      \o expectedFrom(source, hashByChunkId, hashFuncNames,
                                      at + Len(makePlaceholder(hashFuncNames,
                                                               hashByChunkId[i].id)))

\* C6: replaceAsset's text is the source with the first occurrence of each
\* present marker replaced by its value, whatever the values' lengths.
C6_ReplacementsDoNotShift ==
    probe.called =>
        probe.result.source
            = expectedFrom(probe.source, probe.hashByChunkId,
                           options.hashFuncNames.names, 0)

C6_Witness ==
    /\ probe.called
    /\ Len(probe.hashByChunkId) = 2
    /\ \A i \in DOMAIN probe.hashByChunkId :
        /\ Contains(probe.source,
                    makePlaceholder(options.hashFuncNames.names, probe.hashByChunkId[i].id))
        /\ Len(probe.hashByChunkId[i].hash)
             # Len(makePlaceholder(options.hashFuncNames.names, probe.hashByChunkId[i].id))
    /\ Len(probe.result.source) # Len(probe.source)
    /\ probe.source[Len(probe.source)] = Txt("a")

\* C7: the alter-tags handler leaves the attributes of a tag that declares an
\* integrity as they are.
C7_TagWithIntegrityUntouched ==
    [][(phase = "beforeHtmlGeneration" /\ phase' = "done")
       => \A i \in DOMAIN docTags :
             "integrity" \in DOMAIN docTags[i].attributes
                 => docTags'[i].attributes = docTags[i].attributes]_vars

C7_Witness ==
    /\ phase = "done"
    /\ "alterAssetTags" \in hooks
    /\ \E i, j \in DOMAIN docTags :
        /\ filterTag(docTags[i])
        /\ plan.tags[i].preset
        /\ docTags[i].attributes = MapPut(EmptyMap, "integrity", PresetIntegrity)
        /\ "crossorigin" \in DOMAIN docTags[j].attributes

\* the asset key the url of a tag maps to, Undefined when it maps to none
TagAsset(tag) == assetKeyOf(assets, hwpAssetPath(hwpPublicPath, getTagSrc(tag)))

\* C8: a script or link tag without an integrity whose url maps to an asset
\* leaves the alter-tags handler with that asset's integrity, never an empty
\* or missing one.
C8_ReferencedAssetGetsIntegrity ==
    (phase = "done" /\ "alterAssetTags" \in hooks) =>
        \A i \in DOMAIN docTags :
            (filterTag(docTags[i]) /\ ~plan.tags[i].preset
             /\ TagAsset(docTags[i]) # Undefined)
            => /\ "integrity" \in DOMAIN docTags[i].attributes
               /\ docTags[i].attributes["integrity"].kind = "value"
               /\ docTags[i].attributes["integrity"].val # <<>>
               /\ docTags[i].attributes["integrity"].val
                    = assets[TagAsset(docTags[i])].integrity

\* option validation has run and failed
ValidationFailed ==
    /\ optionsValidated
    /\ \/ ~options.hashFuncNames.isArray
       \/ \E i \in DOMAIN options.hashFuncNames.names :
            options.hashFuncNames.names[i] \notin SupportedHashFuncNames

\* the handlers thisCompilation and the handlers it registers tap
CompilationHooks ==
    {"jmtp", "afterOptimizeAssets", "beforeChunkAssets", "chunkAsset", "compilation",
     "beforeHtmlGeneration", "alterAssetTags"}

\* C9: once validation has failed the plugin is disabled for good: none of
\* its compilation handlers is tapped, no asset carries a placeholder or an
\* integrity, no tag is annotated, and the host build is not aborted.
C9_ValidationFailureDisables ==
    ValidationFailed =>
        /\ ~options.enabled
        /\ hooks \cap CompilationHooks = {}
        /\ phase # "failed"
        /\ hashLog = <<>> /\ addLog = <<>> /\ sriChunkAssets = EmptyMap
        /\ \A key \in DOMAIN assets :
            /\ ~assets[key].hasIntegrity
            /\ \A i \in DOMAIN assets[key].source : assets[key].source[i].k # "sri"
        /\ \A i \in DOMAIN docTags :
            docTags[i] = generateTag(plan.publicPath, plan.tags[i])

C9_Witness ==
    /\ ValidationFailed
    /\ phase = "done"
    /\ docTags # <<>>
    /\ JsFile(1) \in DOMAIN assets

\* C10: an empty hashFuncNames, or one that is no list, makes validation
\* report an error to compilation.errors and disable SRI.
C10_EmptyOrNonListIsError ==
    (/\ optionsValidated
     /\ \/ ~options.hashFuncNames.isArray
        \/ options.hashFuncNames.names = <<>>)
    => (errors # <<>> /\ ~options.enabled)

\* the positions of hashFuncNames whose name validateHashFuncName rejects
UnsupportedNames ==
    {i \in DOMAIN options.hashFuncNames.names :
        options.hashFuncNames.names[i] \notin SupportedHashFuncNames}

\* C11: when the list holds unsupported names, validation has pushed one
\* error per unsupported name to compilation.errors and disabled SRI.
C11_OneErrorPerUnsupportedName ==
    (/\ phase = "thisCompilation" /\ "thisCompilation" \in hooks
     /\ options.hashFuncNames.isArray /\ UnsupportedNames # {})
    => (Len(errors) = Cardinality(UnsupportedNames) /\ ~options.enabled)

\* no message occurs twice in the sink
NoDuplicates(messages) ==
    \A i, j \in DOMAIN messages : messages[i] = messages[j] => i = j

\* C12: in a build, compilation.warnings holds no message twice and
\* compilation.errors holds no message twice, whatever the options, also when
\* the phase handler runs twice and when the build is not the first.
C12_NoDuplicateDiagnostics ==
    NoDuplicates(warnings) /\ NoDuplicates(errors)

\* a warning was asked for more than once in this build: three chunks were
\* hashed whose source holds the hot-update text
C12_Witness ==
    /\ plan.hot
    /\ Cardinality({i \in DOMAIN hashLog :
                      Contains(assets[hashLog[i].file].source, HotUpdateText)}) >= 3
    /\ <<"hotReload">> \in Range(warnings)
    /\ NoDuplicates(warnings)

\* the build runs in development: by the host's mode or by the environment
Development == compilerOptions.mode = "development" \/ envDevelopment

\* C13: in development apply taps nothing, and no later event makes the
\* plugin validate its options, push a diagnostic, rewrite an asset, give an
\* asset an integrity or annotate a tag.
C13_DevelopmentIsNoOp ==
    (Development /\ phase # "constructed") =>
        /\ hooks = {}
        /\ ~optionsValidated
        /\ warnings = <<>> /\ errors = <<>> /\ emittedMessages = {}
        /\ hashLog = <<>> /\ addLog = <<>> /\ sriChunkAssets = EmptyMap
        /\ \A key \in DOMAIN assets :
            /\ ~assets[key].hasIntegrity
            /\ \A i \in DOMAIN assets[key].source : assets[key].source[i].k # "sri"
        /\ \A i \in DOMAIN docTags :
            docTags[i] = generateTag(plan.publicPath, plan.tags[i])

C13_Witness ==
    /\ envDevelopment
    /\ compilerOptions.mode = "production"
    /\ options.enabled
    /\ phase = "done"
    /\ docTags # <<>>
    /\ JsFile(1) \in DOMAIN assets

\* C14: a second afterOptimizeAssets on the same compilation leaves the
\* bytes and the integrity of every asset as the first left them.
C14_AfterOptimizeAssetsIdempotent ==
    [][(/\ phase = "afterOptimizeAssets" /\ phase' = "afterOptimizeAssets"
        /\ plan'.reruns < plan.reruns)
       => /\ DOMAIN assets' = DOMAIN assets
          /\ \A key \in DOMAIN assets :
                /\ assets'[key].source = assets[key].source
                /\ assets'[key].integrity = assets[key].integrity
                /\ assets'[key].hasIntegrity = assets[key].hasIntegrity]_vars

\* the handler has run twice, and its first run substituted a non-empty
\* integrity for a marker
C14_Witness ==
    /\ phase = "afterOptimizeAssets"
    /\ Len(addLog) = 2
    /\ \E i, j \in DOMAIN hashLog :
        /\ i < j
        /\ hashLog[i].root = hashLog[j].root /\ hashLog[i].chunk = hashLog[j].chunk
        /\ \E m \in hashLog[i].substituted : m.hash # <<>>
        /\ hashLog[j].substituted = {}

\* C15: a chunk without output files is passed over by processChunk: no
\* asset is hashed for it, its id never enters hashByChunkId, and the
\* handler does not throw on its account (it throws only for a chunk whose
\* asset was deleted).
C15_ChunkWithoutFilesSkipped ==
    ("afterOptimizeAssets" \in hooks /\ phase \in {"afterOptimizeAssets", "failed"})
    => /\ \A c \in Chunks :
            chunks[c].files = <<>> =>
                \A i \in DOMAIN hashLog :
                    /\ hashLog[i].chunk # c
                    /\ \A m \in Range(hashLog[i].map) : m.id # c
       /\ phase = "failed" => \E c \in Chunks : plan.layout[c] = "deleted"

\* a runtime chunk loads a chunk without files, which loads a chunk with a
\* file: the traversal went past the skipped chunk and returned
C15_Witness ==
    /\ AfterOptimizeAssetsReturned
    /\ \E a, b, c \in Chunks :
        /\ chunks[a].hasRuntime
        /\ b \in Range(chunks[a].children) /\ c \in Range(chunks[b].children)
        /\ chunks[b].files = <<>>
        /\ \E i, j \in DOMAIN hashLog :
            /\ i < j
            /\ hashLog[i].root = a /\ hashLog[i].chunk = c
            /\ hashLog[j].root = a /\ hashLog[j].chunk = a

\* the warning processChunk gives for hashLog entry e when the recorded path
\* is none of the chunk's files
CannotDetermineAsset(e) ==
    <<"cannotDetermineAsset", e.chunk, e.computed, chunks[e.chunk].files[1]>>

\* C16: for every chunk processChunk hashed: if the path recorded in
\* sriChunkAssets is none of the chunk's files, the compilation has the
\* warning and the chunk's first file was rewritten and hashed; if it is one
\* of them, that path was used and the compilation has no such warning for
\* the chunk.  The handler fails in neither case.
C16_FallbackToFirstFile ==
    ("afterOptimizeAssets" \in hooks /\ phase \in {"afterOptimizeAssets", "failed"})
    => /\ \A i \in DOMAIN hashLog :
            IF hashLog[i].computed \notin Range(chunks[hashLog[i].chunk].files)
            THEN /\ CannotDetermineAsset(hashLog[i]) \in Range(warnings)
                 /\ hashLog[i].file = chunks[hashLog[i].chunk].files[1]
            ELSE /\ hashLog[i].file = hashLog[i].computed
                 /\ \A k \in DOMAIN warnings :
                        ~(/\ warnings[k][1] = "cannotDetermineAsset"
                          /\ warnings[k][2] = hashLog[i].chunk)
       /\ phase = "failed" => \E c \in Chunks : plan.layout[c] = "deleted"

\* hashLog entry i is the first of a processChunk call for certain: it is the
\* first of the compilation, or the entry before it belongs to another root,
\* or the entry before it hashed its own root (the last chunk of a call)
FirstOfTraversal(i) ==
    \/ i = 1
    \/ hashLog[i - 1].root # hashLog[i].root
    \/ hashLog[i - 1].chunk = hashLog[i - 1].root

\* C17: the table and the map are fresh: a compilation in which the plugin is
\* active starts with an empty sriChunkAssets; a root's processChunk starts
\* with an empty hashByChunkId, which then holds only what that traversal
\* hashed; and only entries of that map are substituted into an asset.
C17_NoLeakAcrossRootsAndBuilds ==
    /\ (phase = "thisCompilation" /\ "afterOptimizeAssets" \in hooks)
           => sriChunkAssets = EmptyMap
    /\ \A i \in DOMAIN hashLog :
        /\ FirstOfTraversal(i) => hashLog[i].map = <<>>
        /\ hashLog[i].map # <<>> =>
               hashLog[i].map = mapSet(hashLog[i - 1].map, hashLog[i - 1].chunk,
                                       hashLog[i - 1].integrity)
        /\ hashLog[i].substituted \subseteq Range(hashLog[i].map)

\* in the second build (the hot-update warning of the first is not repeated),
\* a second root's traversal began with an empty map after the first root's
\* traversal had filled its own
C17_Witness ==
    /\ phase = "afterOptimizeAssets"
    /\ plan.hot /\ warnings = <<>>
    /\ sriChunkAssets # EmptyMap
    /\ \E i \in DOMAIN hashLog :
        /\ i > 1
        /\ hashLog[i - 1].root # hashLog[i].root
        /\ hashLog[i - 1].map # <<>>
        /\ hashLog[i].map = <<>>

\* the last hashLog entry for chunk c: the one that left c's asset as it is
LastHashed(c) ==
    CHOOSE i \in DOMAIN hashLog :
        /\ hashLog[i].chunk = c
        /\ \A j \in DOMAIN hashLog : hashLog[j].chunk = c => j <= i

\* the final integrity of the representative asset of chunk c
FinalIntegrity(c) == assets[hashLog[LastHashed(c)].file].integrity

\* C18: when afterOptimizeAssets returns, every integrity that was
\* substituted for the placeholder of a chunk c is the final integrity of
\* c's asset.
C18_EmbeddedIntegrityIsFinal ==
    AfterOptimizeAssetsReturned =>
        \A i \in DOMAIN hashLog : \A m \in hashLog[i].substituted :
            m.hash = FinalIntegrity(m.id)

\* C19: when afterOptimizeAssets returns, every asset has an integrity, and
\* it is computeIntegrity of the asset's bytes as they are then.
C19_IntegrityOfCurrentBytes ==
    AfterOptimizeAssetsReturned =>
        \A key \in DOMAIN assets :
            /\ assets[key].hasIntegrity
            /\ assets[key].integrity
                 = computeIntegrity(options.hashFuncNames.names, assets[key].source)

\* an asset was rewritten by a substitution, next to one that was not
C19_Witness ==
    /\ AfterOptimizeAssetsReturned
    /\ options.hashFuncNames.names # <<>>
    /\ OrphanFile \in DOMAIN assets
    /\ \E i \in DOMAIN hashLog :
        /\ \E m \in hashLog[i].substituted : m.hash # <<>>
        /\ \E k \in DOMAIN assets[hashLog[i].file].source :
               assets[hashLog[i].file].source[k].k = "sri"

\* the marker of entry m of hashByChunkId occurs in the probe's source
MarkerPresent(m) ==
    Contains(probe.source, makePlaceholder(options.hashFuncNames.names, m.id))

\* C20: an entry of hashByChunkId whose marker does not occur in the asset
\* changes nothing: the bytes are those the present markers alone give (the
\* source itself when none is present), the asset has the integrity of those
\* bytes, and no warning or error is pushed.
C20_AbsentMarkerSkippedSilently ==
    (probe.called /\ \E i \in DOMAIN probe.hashByChunkId :
                        ~MarkerPresent(probe.hashByChunkId[i]))
    => /\ probe.result.source
            = expectedFrom(probe.source, SelectSeq(probe.hashByChunkId, MarkerPresent),
                           options.hashFuncNames.names, 0)
       /\ (\A i \in DOMAIN probe.hashByChunkId : ~MarkerPresent(probe.hashByChunkId[i]))
              => probe.result.source = probe.source
       /\ probe.result.hasIntegrity
       /\ probe.result.integrity
            = computeIntegrity(options.hashFuncNames.names, probe.result.source)
       /\ probe.result.integrity # <<>>
       /\ warnings = <<>> /\ errors = <<>> /\ emittedMessages = {}

\* one marker of the map is absent, with a non-empty value, the other present
C20_Witness ==
    /\ probe.called
    /\ probe.source # <<>>
    /\ \E i, j \in DOMAIN probe.hashByChunkId :
        /\ ~MarkerPresent(probe.hashByChunkId[i])
        /\ probe.hashByChunkId[i].hash # <<>>
        /\ MarkerPresent(probe.hashByChunkId[j])
    /\ probe.result.source # probe.source

====
